---- MODULE Spec2Model ----
(***************************************************************************)
(* A model of enaml/core/block_compiler.py: the VarPool name allocator and *)
(* the BlockCompiler visitors.  The visitors are modelled as an explicit   *)
(* call stack of visitor frames; the instructions they hand to the code    *)
(* generator are recorded in `code` and evaluated on an abstract operand   *)
(* stack (`vm`) so that the emitted calls and their arguments can be       *)
(* inspected.                                                              *)
(***************************************************************************)
EXTENDS Integers, Sequences, FiniteSets, TLC

VARIABLES
    pool,         \* VarPool.pool: the names currently in use
    alloc,        \* the last call made directly on the VarPool
    class_stack,  \* BlockCompiler.class_stack
    node_stack,   \* BlockCompiler.node_stack
    bind_stack,   \* BlockCompiler.bind_stack
    code_stack,   \* BlockCompiler.code_stack
    code,         \* the instructions handed to the code generator so far
    vm,           \* abstract evaluation of `code`
    frames,       \* the Python call stack of visitor invocations
    ret,          \* the visitor invocation that returned in the last step
    phase,        \* "start", "visit" or "done"
    nodes_left,   \* how many more AST items the input block may contain
    next_line     \* source line of the next AST item

vars == <<pool, alloc, class_stack, node_stack, bind_stack, code_stack,
          code, vm, frames, ret, phase, nodes_left, next_line>>

compilerVars == <<class_stack, node_stack, bind_stack, code_stack,
                  code, vm, frames, ret, phase, nodes_left, next_line>>

-----------------------------------------------------------------------------
(* Bounds *)

\* The number of AST items below the root of the compiled block.
MaxNodes == 3

\* The number of calls made on a stand-alone VarPool.
MaxCalls == 5

-----------------------------------------------------------------------------
(* Sequence helpers *)

Last(s) == s[Len(s)]

Front(s) == SubSeq(s, 1, Len(s) - 1)

\* The last n elements of s.
Suffix(s, n) == SubSeq(s, Len(s) - n + 1, Len(s))

\* s without its last n elements.
DropLast(s, n) == SubSeq(s, 1, Len(s) - n)

-----------------------------------------------------------------------------
(* VarPool *)

\* '_[var_%d]' % n
VarName(n) == "_[var_" \o ToString(n) \o "]"

\* A variant that does not record the returned name as held.
VarPool_new_unheld(p) ==
    [var |-> VarName(Cardinality(p)), pool |-> p]

\* VarPool.new: the returned name and the pool afterwards.
VarPool_new(p) ==
    LET var == VarName(Cardinality(p))
    IN  [var |-> var, pool |-> p \cup {var}]

\* A variant that frees the latest name when the given one is not held.
VarPool_release_latest(p, name) ==
    IF name \in p THEN p \ {name} ELSE p \ {VarName(Cardinality(p) - 1)}

\* A variant that frees a name only when it is the latest one.
VarPool_release_lifo(p, name) ==
    IF name = VarName(Cardinality(p) - 1) THEN p \ {name} ELSE p

\* VarPool.release: the pool afterwards.
VarPool_release(p, name) == p \ {name}

scope_key == "_[scope_key]"

node_map == "_[node_map]"

-----------------------------------------------------------------------------
(* Values of the target machine and instructions *)

\* A value: a tag t, a string s, a number n and a sequence of strings q.
V(t, s, n, q) == [t |-> t, s |-> s, n |-> n, q |-> q]

None == V("None", "", 0, <<>>)

Str(s) == V("str", s, 0, <<>>)

IntV(n) == V("int", "", n, <<>>)

Bool(b) == V("bool", IF b THEN "True" ELSE "False", 0, <<>>)

Tuple(q) == V("tuple", "", Len(q), q)

\* A compiled code object: its mode, the identity of its ast, its arguments.
CodeObj(mode, id, args) == V("code", mode, id, args)

Helper(name) == V("helper", name, 0, <<>>)

\* An instruction: operation, string operand, numeric operand, constant.
I(op, s, n, v) == [op |-> op, s |-> s, n |-> n, v |-> v]

Op(op) == I(op, "", 0, None)

OpS(op, s) == I(op, s, 0, None)

OpN(op, n) == I(op, "", n, None)

load_const(v) == I("load_const", "", 0, v)

load_fast(name) == OpS("load_fast", name)

store_fast(name) == OpS("store_fast", name)

load_helper_from_fast(name) == OpS("load_helper_from_fast", name)

call_function(n) == OpN("call_function", n)

\* the `with cg.try_squash_raise():` block around the instructions body
try_squash_raise(body) == <<Op("try_begin")>> \o body \o <<Op("try_end")>>

\* BlockCompiler.load_name: the abstract hook leaves the value of the name
\* on the top of the stack.
load_name(name) == OpS("load_name", name)

-----------------------------------------------------------------------------
(* Abstract evaluation of the emitted instructions *)

\* What a runtime helper returns (the runtime helper contract).
HelperResult(name, args, line) ==
    CASE name = "validate_declarative" -> args[1]
      [] name = "validate_template" -> args[1]
      [] name = "declarative_node" -> V("node", args[2].s, line, <<>>)
      [] name = "template_inst_node" -> V("tnode", args[3].s, line, args[2].q)
      [] name = "make_object" -> V("scope", "", 0, <<>>)
      [] OTHER -> None   \* add_storage, validate_unpack_size, run_operator

\* What calling the value f with the arguments args leaves on the stack.
CallResult(f, args, line) ==
    CASE f.t = "helper" -> HelperResult(f.s, args, line)
      [] f.t = "name" -> V("inst", f.s, line, <<>>)
      [] f.t = "func" -> V("value", f.s, f.n, <<>>)
      [] OTHER -> None   \* list.append

\* The number of operands an instruction takes from the operand stack.
Need(ins) ==
    CASE ins.op \in {"dup_top", "pop_top", "store_fast", "load_attr",
                     "make_function"} -> 1
      [] ins.op = "rot_two" -> 2
      [] ins.op \in {"store_map", "build_class"} -> 3
      [] ins.op = "build_tuple" -> ins.n
      [] ins.op = "call_function" -> ins.n + 1
      [] ins.op = "call_function_var" -> ins.n + 2
      [] OTHER -> 0

\* The value of an attribute of the value x.
Attr(x, name) ==
    V(name, IF x.t \in {"children"} THEN x.s ELSE x.t, x.n, <<>>)

RECURSIVE Names(_)
\* The names of a sequence of loaded values.
Names(vs) ==
    IF vs = <<>> THEN <<>> ELSE <<Head(vs).s>> \o Names(Tail(vs))

\* The record of one executed call.
CallRec(f, args, star, m) ==
    [f |-> f, args |-> args, star |-> star, line |-> m.line,
     try |-> m.try > 0]

\* One instruction executed on the machine state m.  base is the depth the
\* operand stack had when the emitting visitor was entered.
Exec(m, ins, base) ==
    LET st == m.stack
        d == Len(st)
        k == Need(ins)
        push(v) == [m EXCEPT !.stack = Append(st, v)]
        repl(n, v) == [m EXCEPT !.stack = Append(DropLast(st, n), v)]
    IN
    IF d - k < base \/ d < k
    THEN [m EXCEPT !.under = TRUE]
    ELSE
    CASE ins.op = "load_const" -> push(ins.v)
      [] ins.op = "load_name" -> push(V("name", ins.s, 0, <<>>))
      [] ins.op = "load_global" -> push(V("global", ins.s, 0, <<>>))
      [] ins.op = "load_helper_from_fast" -> push(Helper(ins.s))
      [] ins.op = "load_globals_from_fast" -> push(V("globals", "", 0, <<>>))
      [] ins.op = "load_fast" ->
            push(IF ins.s \in DOMAIN m.fast THEN m.fast[ins.s]
                 ELSE V("unbound", ins.s, 0, <<>>))
      [] ins.op = "store_fast" ->
            [m EXCEPT !.stack = Front(st),
                      !.fast = [x \in DOMAIN m.fast \cup {ins.s} |->
                                  IF x = ins.s THEN Last(st) ELSE m.fast[x]],
                      !.stores = Append(m.stores,
                                        [name |-> ins.s, value |-> Last(st)])]
      [] ins.op = "load_attr" -> repl(1, Attr(Last(st), ins.s))
      [] ins.op = "dup_top" -> push(Last(st))
      [] ins.op = "pop_top" -> [m EXCEPT !.stack = Front(st)]
      [] ins.op = "rot_two" ->
            [m EXCEPT !.stack = DropLast(st, 2) \o <<st[d], st[d - 1]>>]
      [] ins.op = "build_map" -> push(V("dict", "", 0, <<>>))
      [] ins.op = "store_map" -> [m EXCEPT !.stack = DropLast(st, 2)]
      [] ins.op = "build_tuple" ->
            repl(ins.n, Tuple(Names(Suffix(st, ins.n))))
      [] ins.op = "build_class" ->
            repl(3, V("class", st[d - 2].s, m.line, st[d - 1].q))
      [] ins.op = "make_function" ->
            repl(1, V("func", st[d].s, st[d].n, st[d].q))
      [] ins.op = "call_function" ->
            LET f == st[d - ins.n]
                args == Suffix(st, ins.n)
            IN  [m EXCEPT !.stack = Append(DropLast(st, ins.n + 1),
                                           CallResult(f, args, m.line)),
                          !.calls = Append(m.calls,
                                           CallRec(f, args, FALSE, m))]
      [] ins.op = "call_function_var" ->
            LET f == st[d - ins.n - 1]
                args == Suffix(st, ins.n + 1)
            IN  [m EXCEPT !.stack = Append(DropLast(st, ins.n + 2),
                                           CallResult(f, args, m.line)),
                          !.calls = Append(m.calls,
                                           CallRec(f, args, TRUE, m))]
      [] ins.op = "set_lineno" -> [m EXCEPT !.line = ins.n]
      [] ins.op = "try_begin" -> [m EXCEPT !.try = m.try + 1]
      [] ins.op = "try_end" -> [m EXCEPT !.try = m.try - 1]
      [] OTHER -> m   \* store_globals_to_fast, store_helpers_to_fast

RECURSIVE Run(_, _, _)
\* The instructions ins executed in order; the machine stops at an
\* instruction that lacks operands.
Run(m, ins, base) ==
    IF ins = <<>> \/ m.under THEN m
    ELSE Run(Exec(m, Head(ins), base), Tail(ins), base)

\* The machine before any instruction.
VM0 ==
    [stack |-> <<>>, fast |-> <<>>, calls |-> <<>>, stores |-> <<>>,
     line |-> 0, try |-> 0, under |-> FALSE]

-----------------------------------------------------------------------------
(* The AST of a block *)

\* An AST node.  Fields a node kind does not have are empty: the empty
\* string stands for an absent identifier, type name or starred name, and
\* value = "" for an absent expression.  args and stararg hold the argument
\* expressions of a template instantiation, each with the identity of its
\* ast and the local names it reads.
Node(kind, typename, identifier, name, operator, value, args, stararg, unpack, names, starname) ==
    [kind |-> kind, typename |-> typename, identifier |-> identifier,
     name |-> name, operator |-> operator, value |-> value,
     args |-> args, stararg |-> stararg, unpack |-> unpack,
     names |-> names, starname |-> starname, body |-> <<>>, lineno |-> 0]

NoNode == Node("", "", "", "", "", "", <<>>, <<>>, FALSE, <<>>, "")

ChildDef(typename, identifier) ==
    Node("ChildDef", typename, identifier, "", "", "",
         <<>>, <<>>, FALSE, <<>>, "")

Binding(name, operator, value) ==
    Node("Binding", "", "", name, operator, value,
         <<>>, <<>>, FALSE, <<>>, "")

StorageExpr(name, typename, operator, value) ==
    Node("StorageExpr", typename, "", name, operator, value,
         <<>>, <<>>, FALSE, <<>>, "")

TemplateInst(name, args, stararg, unpack, names, starname) ==
    Node("TemplateInst", "", "", name, "", "",
         args, stararg, unpack, names, starname)

\* An argument expression: its ast and the local names it reads, in order.
Arg(ast, reads) == [ast |-> ast, reads |-> reads]

Arg1 == Arg("1", <<>>)

Arg2 == Arg("x + y", <<"x", "y">>)

ArgStar == Arg("rest", <<"rest">>)

\* The body items the blocks of the model are built from.
ChildDefs == {ChildDef("Label", ""), ChildDef("Label", "lbl")}

Bindings ==
    {Binding("text", "=", "PythonExpression"),
     Binding("clicked", "::", "PythonModule")}

StorageExprs ==
    {StorageExpr("count", "", "", ""),
     StorageExpr("count", "int", "", ""),
     StorageExpr("count", "", "=", "PythonExpression"),
     StorageExpr("count", "int", "=", "PythonExpression")}

TemplateInsts ==
    {TemplateInst("MyTemplate", <<>>, <<>>, FALSE, <<>>, ""),
     TemplateInst("MyTemplate", <<Arg1>>, <<ArgStar>>, FALSE, <<>>, ""),
     TemplateInst("MyTemplate", <<Arg1, Arg2>>, <<>>, TRUE, <<"a", "b">>, ""),
     TemplateInst("MyTemplate", <<Arg2>>, <<ArgStar>>, TRUE, <<"a">>, "rest")}

Items == ChildDefs \cup Bindings \cup StorageExprs \cup TemplateInsts

\* The bodies of at most k items.
Bodies(k) == UNION {[1..n -> Items] : n \in 0..k}

\* A variant that also counts attribute bindings as storage declarations.
AnyStorageExpr_orBinding(body) ==
    \E i \in 1..Len(body) : body[i].kind \in {"StorageExpr", "Binding"}

\* any(isinstance(item, StorageExpr) for item in body)
AnyStorageExpr(body) ==
    \E i \in 1..Len(body) : body[i].kind = "StorageExpr"

-----------------------------------------------------------------------------
(* The instructions the visitors emit *)

\* BlockCompiler.prepare_block
prepare_block ==
    <<Op("store_globals_to_fast"),
      Op("store_helpers_to_fast"),
      load_helper_from_fast("make_object"),
      call_function(0),
      store_fast(scope_key),
      Op("build_map"),
      store_fast(node_map)>>

\* BlockCompiler.safe_eval_ast: the code object of the expression takes the
\* local names the expression reads as its arguments (call_args).
safe_eval_ast(arg, lineno) ==
    LET call_args == arg.reads
    IN  <<load_const(CodeObj(arg.ast, lineno, call_args)),
          Op("make_function")>>
        \o [i \in 1..Len(call_args) |-> load_name(call_args[i])]
        \o <<call_function(Len(call_args))>>

\* A variant without the try_squash_raise block.
ValidateChild_bare ==
    <<Op("dup_top"),
      load_helper_from_fast("validate_declarative"),
      Op("rot_two"),
      call_function(1),
      Op("pop_top")>>

\* visit_ChildDef, "Validate the type of the child"
ValidateChild ==
    try_squash_raise(
        <<Op("dup_top"),
          load_helper_from_fast("validate_declarative"),
          Op("rot_two"),
          call_function(1),
          Op("pop_top")>>)

\* A variant that subclasses every child class.
SubclassChild_always(node) ==
    <<load_const(Str(node.typename)),
      Op("rot_two"),
      OpN("build_tuple", 1),
      Op("build_map"),
      OpS("load_global", "__name__"),
      load_const(Str("__module__")),
      Op("store_map"),
      Op("build_class")>>

\* visit_ChildDef, "Subclass the child class if needed"
SubclassChild(node) ==
    IF AnyStorageExpr(node.body)
    THEN <<load_const(Str(node.typename)),
           Op("rot_two"),
           OpN("build_tuple", 1),
           Op("build_map"),
           OpS("load_global", "__name__"),
           load_const(Str("__module__")),
           Op("store_map"),
           Op("build_class")>>
    ELSE <<>>

\* visit_ChildDef, "Build the construct node"
BuildChildNode(node, node_var) ==
    <<load_helper_from_fast("declarative_node"),
      Op("rot_two"),
      load_const(Str(node.identifier)),
      load_fast(scope_key),
      call_function(3),
      store_fast(node_var)>>

\* A variant that binds the node to the name of the node map.
StoreInNodeMap_rebind(node, node_var) ==
    IF node.identifier # ""
    THEN <<load_fast(node_var),
           store_fast(node_map)>>
    ELSE <<>>

\* visit_ChildDef, "Store the node in the node map if needed"
StoreInNodeMap(node, node_var) ==
    IF node.identifier # ""
    THEN <<load_fast(node_map),
           load_fast(node_var),
           load_const(Str(node.identifier)),
           Op("store_map"),
           Op("pop_top")>>
    ELSE <<>>

\* visit_ChildDef up to the visit of the body
ChildDefHead(node, class_var, node_var) ==
    <<OpN("set_lineno", node.lineno), load_name(node.typename)>>
    \o ValidateChild
    \o SubclassChild(node)
    \o <<Op("dup_top"), store_fast(class_var)>>
    \o BuildChildNode(node, node_var)
    \o StoreInNodeMap(node, node_var)

\* A variant that leaves the result of the append call on the stack.
ChildDefTail_keep(parent_var, node_var) ==
    <<load_fast(parent_var),
      OpS("load_attr", "children"),
      OpS("load_attr", "append"),
      load_fast(node_var),
      call_function(1)>>

\* A variant that appends the parent to the children of the node.
ChildDefTail_swapped(parent_var, node_var) ==
    <<load_fast(node_var),
      OpS("load_attr", "children"),
      OpS("load_attr", "append"),
      load_fast(parent_var),
      call_function(1),
      Op("pop_top")>>

\* visit_ChildDef, "Add this node to the parent node"
ChildDefTail(parent_var, node_var) ==
    <<load_fast(parent_var),
      OpS("load_attr", "children"),
      OpS("load_attr", "append"),
      load_fast(node_var),
      call_function(1),
      Op("pop_top")>>

\* visit_TemplateInst, "Load and validate the template"
ValidateTemplate(node) ==
    <<load_name(node.name)>>
    \o try_squash_raise(
        <<load_helper_from_fast("validate_template"),
          Op("rot_two"),
          call_function(1)>>)

RECURSIVE EvalArgs_reversed(_, _)
\* A variant that evaluates the arguments last to first.
EvalArgs_reversed(args, lineno) ==
    IF args = <<>> THEN <<>>
    ELSE EvalArgs_reversed(Tail(args), lineno)
         \o safe_eval_ast(Head(args), lineno)

RECURSIVE EvalArgs(_, _)
\* visit_TemplateInst, the calls of safe_eval_ast for a list of arguments
EvalArgs(args, lineno) ==
    IF args = <<>> THEN <<>>
    ELSE safe_eval_ast(Head(args), lineno) \o EvalArgs(Tail(args), lineno)

\* visit_TemplateInst, "Instantiate the template"
InstantiateTemplate(node) ==
    LET argcount == Len(node.args)
        varargs == node.stararg # <<>>
    IN  IF varargs
        THEN <<OpN("call_function_var", argcount)>>
        ELSE <<call_function(argcount)>>

\* A variant that takes has_star from the fixed names.
ValidateUnpackSize_names(node) ==
    IF node.unpack
    THEN try_squash_raise(
            <<load_helper_from_fast("validate_unpack_size"),
              Op("rot_two"),
              load_const(IntV(Len(node.names))),
              load_const(Bool(node.names # <<>>)),
              call_function(3)>>)
    ELSE <<>>

\* visit_TemplateInst, "Validate the instantiation size, if needed"
ValidateUnpackSize(node) ==
    IF node.unpack
    THEN try_squash_raise(
            <<load_helper_from_fast("validate_unpack_size"),
              Op("rot_two"),
              load_const(IntV(Len(node.names))),
              load_const(Bool(node.starname # "")),
              call_function(3)>>)
    ELSE <<>>

\* visit_TemplateInst, "Load and call the helper to create the compiler node"
BuildTemplateNode(node) ==
    LET names == IF node.unpack THEN node.names ELSE <<>>
        starname == IF node.unpack THEN node.starname ELSE ""
    IN  <<load_helper_from_fast("template_inst_node"),
          Op("rot_two"),
          load_const(Tuple(names)),
          load_const(Str(starname)),
          call_function(3)>>

\* visit_TemplateInst, "Append the node to the parent node"
AppendTemplateNode(parent_var) ==
    <<load_fast(parent_var),
      OpS("load_attr", "children"),
      OpS("load_attr", "append"),
      Op("rot_two"),
      call_function(1),
      Op("pop_top")>>

\* visit_TemplateInst
TemplateInstCode(node, parent_var) ==
    <<OpN("set_lineno", node.lineno)>>
    \o ValidateTemplate(node)
    \o EvalArgs(node.args, node.lineno)
    \o EvalArgs(node.stararg, node.lineno)
    \o InstantiateTemplate(node)
    \o ValidateUnpackSize(node)
    \o BuildTemplateNode(node)
    \o AppendTemplateNode(parent_var)

\* visit_StorageExpr up to the visit of the expression
StorageExprCode(node, class_var) ==
    <<OpN("set_lineno", node.lineno)>>
    \o try_squash_raise(
        <<load_helper_from_fast("add_storage"),
          load_fast(class_var),
          load_const(Str(node.name)),
          IF node.typename # "" THEN load_name(node.typename)
          ELSE load_const(None),
          load_const(Str("attr")),
          call_function(4),
          Op("pop_top")>>)

\* A variant that loads the attribute name before the node.
OperatorExprCode_swapped(node, node_var, bind_name, unit) ==
    <<OpN("set_lineno", node.lineno)>>
    \o try_squash_raise(
        <<load_helper_from_fast("run_operator"),
          load_const(Str(bind_name)),
          load_fast(node_var),
          load_const(Str(node.operator)),
          load_const(unit),
          Op("load_globals_from_fast"),
          call_function(5),
          Op("pop_top")>>)

\* visit_OperatorExpr after the visit of the value
OperatorExprCode(node, node_var, bind_name, unit) ==
    <<OpN("set_lineno", node.lineno)>>
    \o try_squash_raise(
        <<load_helper_from_fast("run_operator"),
          load_fast(node_var),
          load_const(Str(bind_name)),
          load_const(Str(node.operator)),
          load_const(unit),
          Op("load_globals_from_fast"),
          call_function(5),
          Op("pop_top")>>)

\* compile(node.ast, cg.filename, mode=mode): the ast of the value of the
\* operator expression on source line lineno.
compile(lineno, mode) == CodeObj(mode, lineno, <<>>)

-----------------------------------------------------------------------------
(* The visitors *)

\* The state of the compiler a visitor finds when it is called: the held
\* names, the four stacks and the number of instructions emitted so far.
Snapshot ==
    [pool |-> pool, class_stack |-> class_stack, node_stack |-> node_stack,
     bind_stack |-> bind_stack, code_stack |-> code_stack,
     code |-> Len(code)]

\* One invocation of a visitor: the node it visits, its position (the index
\* i of the next body item, or pc for the visitors of expressions), its
\* locals class_var and node_var, and the depth the operand stack had when
\* it was entered.
Frame(node, pc, class_var, node_var, base) ==
    [node |-> node, i |-> 1, pc |-> pc,
     class_var |-> class_var, node_var |-> node_var, base |-> base,
     entry |-> Snapshot]

\* The record of a visitor that has returned.
Returned(node, class_var, node_var, base, depth, entry) ==
    [node |-> node, class_var |-> class_var, node_var |-> node_var,
     base |-> base, depth |-> depth, entry |-> entry]

NoReturn ==
    Returned(NoNode, "", "", 0, 0,
             [pool |-> {}, class_stack |-> <<>>, node_stack |-> <<>>,
              bind_stack |-> <<>>, code_stack |-> <<>>, code |-> 0])

Top == Last(frames)

\* The caller continues after the visit it called has returned.
Resume(fs) ==
    LET f == Last(fs)
    IN  CASE f.node.kind \in {"Block", "ChildDef"} ->
                [fs EXCEPT ![Len(fs)].i = f.i + 1]
          [] f.node.kind \in {"Binding", "StorageExpr"} ->
                [fs EXCEPT ![Len(fs)].pc = "pop"]
          [] OTHER -> [fs EXCEPT ![Len(fs)].pc = "emit"]

\* The visitor on top is in `for item in node.body` with an item left.
InBody ==
    /\ phase = "visit"
    /\ Top.node.kind \in {"Block", "ChildDef"}
    /\ Top.i <= Len(Top.node.body)

\* self.visit(item) is about to dispatch on an item of the given kind.
Visiting(kind) == InBody /\ Top.node.body[Top.i].kind = kind

\* The item being dispatched, on its source line.
Item == [Top.node.body[Top.i] EXCEPT !.lineno = next_line]

\* The instructions ins are handed to the code generator.
Emit(ins, base) ==
    /\ code' = code \o ins
    /\ vm' = Run(vm, ins, base)

Init ==
    /\ pool = {}
    /\ alloc = [op |-> "", name |-> "", count |-> 0, issued |-> {},
                twin |-> FALSE, fresh |-> {}, fname |-> ""]
    /\ class_stack = <<>>
    /\ node_stack = <<>>
    /\ bind_stack = <<>>
    /\ code_stack = <<>>
    /\ code = <<>>
    /\ vm = VM0
    /\ frames = <<>>
    /\ ret = NoReturn
    /\ phase = "start"
    /\ nodes_left = MaxNodes
    /\ next_line = 1

\* The compiler of a whole block: the preamble, the root object, the visit
\* of the root's body.
visit_Block ==
    /\ phase = "start"
    /\ \E body \in Bodies(nodes_left) :
        LET node == [ChildDef("Window", "") EXCEPT
                        !.kind = "Block", !.body = body, !.lineno = next_line]
            c == VarPool_new(pool)
            n == VarPool_new(c.pool)
        IN  /\ pool' = n.pool
            /\ Emit(prepare_block \o ChildDefHead(node, c.var, n.var), 0)
            /\ class_stack' = Append(class_stack, c.var)
            /\ node_stack' = Append(node_stack, n.var)
            /\ frames' = <<Frame(node, "body", c.var, n.var, 0)>>
            /\ nodes_left' = nodes_left - Len(body)
    /\ phase' = "visit"
    /\ next_line' = next_line + 1
    /\ ret' = NoReturn
    /\ UNCHANGED <<alloc, bind_stack, code_stack>>

\* The visit of the root's body is over.
visit_Block_end ==
    /\ phase = "visit"
    /\ Top.node.kind = "Block"
    /\ Top.i > Len(Top.node.body)
    /\ class_stack' = Front(class_stack)
    /\ node_stack' = Front(node_stack)
    /\ pool' = VarPool_release(VarPool_release(pool, Top.class_var),
                               Top.node_var)
    /\ frames' = Front(frames)
    /\ ret' = Returned(Top.node, Top.class_var, Top.node_var,
                       Top.base, Len(vm.stack), Top.entry)
    /\ phase' = "done"
    /\ UNCHANGED <<alloc, bind_stack, code_stack, code, vm, nodes_left,
                   next_line>>

\* A variant that appends the node to its parent before the body is
\* visited.
visit_ChildDef_appendfirst ==
    /\ Visiting("ChildDef")
    /\ \E body \in Bodies(nodes_left) :
        LET node == [Item EXCEPT !.body = body]
            c == VarPool_new(pool)
            n == VarPool_new(c.pool)
            base == Len(vm.stack)
        IN  /\ pool' = n.pool
            /\ Emit(ChildDefHead(node, c.var, n.var)
                    \o ChildDefTail(Last(node_stack), n.var), base)
            /\ class_stack' = Append(class_stack, c.var)
            /\ node_stack' = Append(node_stack, n.var)
            /\ frames' = Append(frames, Frame(node, "body", c.var, n.var, base))
            /\ nodes_left' = nodes_left - Len(body)
    /\ next_line' = next_line + 1
    /\ ret' = NoReturn
    /\ UNCHANGED <<alloc, bind_stack, code_stack, phase>>

\* visit_ChildDef up to `for item in node.body`
visit_ChildDef ==
    /\ Visiting("ChildDef")
    /\ \E body \in Bodies(nodes_left) :
        LET node == [Item EXCEPT !.body = body]
            c == VarPool_new(pool)
            n == VarPool_new(c.pool)
            base == Len(vm.stack)
        IN  /\ pool' = n.pool
            /\ Emit(ChildDefHead(node, c.var, n.var), base)
            /\ class_stack' = Append(class_stack, c.var)
            /\ node_stack' = Append(node_stack, n.var)
            /\ frames' = Append(frames, Frame(node, "body", c.var, n.var, base))
            /\ nodes_left' = nodes_left - Len(body)
    /\ next_line' = next_line + 1
    /\ ret' = NoReturn
    /\ UNCHANGED <<alloc, bind_stack, code_stack, phase>>

\* A variant that releases the node temporary only.
visit_ChildDef_end_leak ==
    /\ phase = "visit"
    /\ Top.node.kind = "ChildDef"
    /\ Top.i > Len(Top.node.body)
    /\ class_stack' = Front(class_stack)
    /\ node_stack' = Front(node_stack)
    /\ Emit(ChildDefTail(Last(node_stack'), Top.node_var), Top.base)
    /\ pool' = VarPool_release(pool, Top.node_var)
    /\ frames' = Resume(Front(frames))
    /\ ret' = Returned(Top.node, Top.class_var, Top.node_var,
                       Top.base, Len(vm'.stack), Top.entry)
    /\ UNCHANGED <<alloc, bind_stack, code_stack, phase, nodes_left,
                   next_line>>

\* visit_ChildDef after `for item in node.body`
visit_ChildDef_end ==
    /\ phase = "visit"
    /\ Top.node.kind = "ChildDef"
    /\ Top.i > Len(Top.node.body)
    /\ class_stack' = Front(class_stack)
    /\ node_stack' = Front(node_stack)
    /\ Emit(ChildDefTail(Last(node_stack'), Top.node_var), Top.base)
    /\ pool' = VarPool_release(VarPool_release(pool, Top.class_var),
                               Top.node_var)
    /\ frames' = Resume(Front(frames))
    /\ ret' = Returned(Top.node, Top.class_var, Top.node_var,
                       Top.base, Len(vm'.stack), Top.entry)
    /\ UNCHANGED <<alloc, bind_stack, code_stack, phase, nodes_left,
                   next_line>>

\* visit_TemplateInst
visit_TemplateInst ==
    /\ Visiting("TemplateInst")
    /\ Emit(TemplateInstCode(Item, Last(node_stack)), Len(vm.stack))
    /\ frames' = Resume(frames)
    /\ ret' = Returned(Item, "", "", Len(vm.stack), Len(vm'.stack),
                       Snapshot)
    /\ next_line' = next_line + 1
    /\ UNCHANGED <<pool, alloc, class_stack, node_stack, bind_stack,
                   code_stack, phase, nodes_left>>

\* A variant that hands add_storage the class at the bottom of class_stack.
visit_StorageExpr_outer ==
    /\ Visiting("StorageExpr")
    /\ Emit(StorageExprCode(Item, Head(class_stack)), Len(vm.stack))
    /\ IF Item.value # ""
       THEN /\ bind_stack' = Append(bind_stack, Item.name)
            /\ frames' = Append(frames,
                                Frame(Item, "expr", "", "", Len(vm.stack)))
            /\ ret' = NoReturn
       ELSE /\ bind_stack' = bind_stack
            /\ frames' = Resume(frames)
            /\ ret' = Returned(Item, "", "", Len(vm.stack), Len(vm'.stack),
                       Snapshot)
    /\ next_line' = next_line + 1
    /\ UNCHANGED <<pool, alloc, class_stack, node_stack, code_stack, phase,
                   nodes_left>>

\* visit_StorageExpr up to `self.visit(node.expr)`, or all of it when the
\* declaration has no expression
visit_StorageExpr ==
    /\ Visiting("StorageExpr")
    /\ Emit(StorageExprCode(Item, Last(class_stack)), Len(vm.stack))
    /\ IF Item.value # ""
       THEN /\ bind_stack' = Append(bind_stack, Item.name)
            /\ frames' = Append(frames,
                                Frame(Item, "expr", "", "", Len(vm.stack)))
            /\ ret' = NoReturn
       ELSE /\ bind_stack' = bind_stack
            /\ frames' = Resume(frames)
            /\ ret' = Returned(Item, "", "", Len(vm.stack), Len(vm'.stack),
                       Snapshot)
    /\ next_line' = next_line + 1
    /\ UNCHANGED <<pool, alloc, class_stack, node_stack, code_stack, phase,
                   nodes_left>>

\* visit_Binding up to `self.visit(node.expr)`
visit_Binding ==
    /\ Visiting("Binding")
    /\ bind_stack' = Append(bind_stack, Item.name)
    /\ frames' = Append(frames, Frame(Item, "expr", "", "", Len(vm.stack)))
    /\ next_line' = next_line + 1
    /\ ret' = NoReturn
    /\ UNCHANGED <<pool, alloc, class_stack, node_stack, code_stack, code,
                   vm, phase, nodes_left>>

\* A variant that leaves the name on bind_stack.
visit_Binding_end_keep ==
    /\ phase = "visit"
    /\ Top.node.kind \in {"Binding", "StorageExpr"}
    /\ Top.pc = "pop"
    /\ frames' = Resume(Front(frames))
    /\ ret' = Returned(Top.node, "", "", Top.base, Len(vm.stack), Top.entry)
    /\ UNCHANGED <<pool, alloc, class_stack, node_stack, bind_stack,
                   code_stack, code, vm, phase, nodes_left, next_line>>

\* visit_StorageExpr and visit_Binding after `self.visit(node.expr)`
visit_Binding_end ==
    /\ phase = "visit"
    /\ Top.node.kind \in {"Binding", "StorageExpr"}
    /\ Top.pc = "pop"
    /\ bind_stack' = Front(bind_stack)
    /\ frames' = Resume(Front(frames))
    /\ ret' = Returned(Top.node, "", "", Top.base, Len(vm.stack), Top.entry)
    /\ UNCHANGED <<pool, alloc, class_stack, node_stack, code_stack, code,
                   vm, phase, nodes_left, next_line>>

\* visit_OperatorExpr up to `self.visit(node.value)`; node.expr of a binding
\* or a storage declaration is an operator expression.
visit_OperatorExpr ==
    /\ phase = "visit"
    /\ Top.node.kind \in {"Binding", "StorageExpr"}
    /\ Top.pc = "expr"
    /\ frames' = Append(frames,
                        Frame([Top.node EXCEPT !.kind = "OperatorExpr"],
                              "value", "", "", Len(vm.stack)))
    /\ ret' = NoReturn
    /\ UNCHANGED <<pool, alloc, class_stack, node_stack, bind_stack,
                   code_stack, code, vm, phase, nodes_left, next_line>>

\* A variant that pushes the compiled unit twice.
visit_Python_twice(kind, mode) ==
    /\ phase = "visit"
    /\ Top.node.kind = "OperatorExpr"
    /\ Top.pc = "value"
    /\ Top.node.value = kind
    /\ code_stack' = code_stack \o <<compile(Top.node.lineno, mode),
                                     compile(Top.node.lineno, mode)>>
    /\ frames' = Resume(frames)
    /\ ret' = Returned([Top.node EXCEPT !.kind = kind], "", "",
                       Len(vm.stack), Len(vm.stack), Snapshot)
    /\ UNCHANGED <<pool, alloc, class_stack, node_stack, bind_stack, code,
                   vm, phase, nodes_left, next_line>>

\* visit_PythonExpression and visit_PythonModule
visit_Python(kind, mode) ==
    /\ phase = "visit"
    /\ Top.node.kind = "OperatorExpr"
    /\ Top.pc = "value"
    /\ Top.node.value = kind
    /\ code_stack' = Append(code_stack, compile(Top.node.lineno, mode))
    /\ frames' = Resume(frames)
    /\ ret' = Returned([Top.node EXCEPT !.kind = kind], "", "",
                       Len(vm.stack), Len(vm.stack), Snapshot)
    /\ UNCHANGED <<pool, alloc, class_stack, node_stack, bind_stack, code,
                   vm, phase, nodes_left, next_line>>

visit_PythonExpression == visit_Python("PythonExpression", "eval")

visit_PythonModule == visit_Python("PythonModule", "exec")

\* A variant that reads code_stack[-1] without popping it.
visit_OperatorExpr_end_peek ==
    /\ phase = "visit"
    /\ Top.node.kind = "OperatorExpr"
    /\ Top.pc = "emit"
    /\ Emit(OperatorExprCode(Top.node, Last(node_stack), Last(bind_stack),
                             Last(code_stack)), Top.base)
    /\ frames' = Resume(Front(frames))
    /\ ret' = Returned(Top.node, "", "", Top.base, Len(vm'.stack),
                       Top.entry)
    /\ UNCHANGED <<pool, alloc, class_stack, node_stack, bind_stack,
                   code_stack, phase, nodes_left, next_line>>

\* visit_OperatorExpr after `self.visit(node.value)`
visit_OperatorExpr_end ==
    /\ phase = "visit"
    /\ Top.node.kind = "OperatorExpr"
    /\ Top.pc = "emit"
    /\ code_stack' = Front(code_stack)
    /\ Emit(OperatorExprCode(Top.node, Last(node_stack), Last(bind_stack),
                             Last(code_stack)), Top.base)
    /\ frames' = Resume(Front(frames))
    /\ ret' = Returned(Top.node, "", "", Top.base, Len(vm'.stack),
                       Top.entry)
    /\ UNCHANGED <<pool, alloc, class_stack, node_stack, bind_stack, phase,
                   nodes_left, next_line>>

Next ==
    \/ visit_Block
    \/ visit_Block_end
    \/ visit_ChildDef
    \/ visit_ChildDef_end
    \/ visit_TemplateInst
    \/ visit_StorageExpr
    \/ visit_Binding
    \/ visit_Binding_end
    \/ visit_OperatorExpr
    \/ visit_PythonExpression
    \/ visit_PythonModule
    \/ visit_OperatorExpr_end

Spec == Init /\ [][Next]_vars

-----------------------------------------------------------------------------
(* A VarPool used on its own *)

VarNames == {VarName(i) : i \in 0..MaxCalls}

\* a call of VarPool.new; the caller notes the name as issued, and a second
\* VarPool created when the first was drained gets the same call.
PoolNew ==
    /\ alloc.count < MaxCalls
    /\ LET r == VarPool_new(pool)
           f == VarPool_new(alloc.fresh)
       IN  /\ pool' = r.pool
           /\ alloc' = [op |-> "new", name |-> r.var,
                        count |-> alloc.count + 1,
                        issued |-> alloc.issued \cup {r.var},
                        twin |-> alloc.twin,
                        fresh |-> IF alloc.twin THEN f.pool ELSE {},
                        fname |-> IF alloc.twin THEN f.var ELSE ""]
    /\ UNCHANGED compilerVars

\* a call of VarPool.release with any name; when it releases the last of
\* the issued names a second VarPool is created, VarPool(), which gets the
\* same calls from then on.
PoolRelease ==
    /\ alloc.count < MaxCalls
    /\ \E name \in VarNames :
        /\ pool' = VarPool_release(pool, name)
        /\ alloc' = [op |-> "release", name |-> name,
                     count |-> alloc.count + 1,
                     issued |-> alloc.issued \ {name},
                     twin |-> \/ alloc.twin
                              \/ alloc.issued = {name},
                     fresh |-> IF alloc.twin
                               THEN VarPool_release(alloc.fresh, name)
                               ELSE {},
                     fname |-> ""]
    /\ UNCHANGED compilerVars

PoolNext == PoolNew \/ PoolRelease

PoolSpec == Init /\ [][PoolNext]_vars

-----------------------------------------------------------------------------
(* Properties *)

\* The calls executed so far of the runtime helper `name`.
CallsOf(name) ==
    {i \in 1..Len(vm.calls) : vm.calls[i].f = Helper(name)}

\* The runtime helper `name` has been called.
Called(name) == CallsOf(name) # {}

\* The value declarative_node returns for the node of a frame or of a
\* returned visitor.
NodeValue(node) == V("node", node.identifier, node.lineno, <<>>)

\* The bound method children.append of a node value.
AppendOf(v) == V("append", v.t, v.n, <<>>)

\* The positions of the instruction ins in the emitted code.
Positions(ins) == {i \in 1..Len(code) : code[i] = ins}

\* C1: every VarPool.new() returns a name that is not in the pool at the
\* moment of the call, whatever the order of the earlier releases.
C1_NewReturnsUnusedName ==
    [][(alloc'.count # alloc.count /\ alloc'.op = "new")
        => alloc'.name \notin pool]_vars

\* C2: once the visit of a full block has finished, class_stack, node_stack,
\* bind_stack and code_stack are all empty.
C2_StacksEmptyAtEnd ==
    phase = "done" =>
        /\ class_stack = <<>>
        /\ node_stack = <<>>
        /\ bind_stack = <<>>
        /\ code_stack = <<>>

\* A finished block whose visit pushed on all four stacks.
C2_Witness ==
    /\ phase = "done"
    /\ nodes_left = 0
    /\ Called("run_operator")
    /\ Cardinality(CallsOf("declarative_node")) >= 2
    /\ class_stack = <<>> /\ node_stack = <<>>
    /\ bind_stack = <<>> /\ code_stack = <<>>

\* C3: the instructions of visit_ChildDef, visit_TemplateInst,
\* visit_StorageExpr and visit_OperatorExpr never take an operand below the
\* depth the operand stack had on entry, and on return the operand stack
\* has the depth it had on entry.
C3_NoOperandResidue ==
    /\ ~vm.under
    /\ ret.node.kind \in {"ChildDef", "TemplateInst", "StorageExpr",
                          "OperatorExpr"}
        => ret.depth = ret.base

\* A variadic template instantiation with an unpack spec has returned after
\* a child with an identifier and a typed storage declaration with an
\* expression.
C3_Witness ==
    /\ ret.node.kind = "TemplateInst"
    /\ ret.node.stararg # <<>>
    /\ ret.node.unpack
    /\ ret.depth = ret.base
    /\ ~vm.under
    /\ Positions(Op("build_class")) # {}
    /\ Positions(load_fast(node_map)) # {}
    /\ Called("run_operator")
    /\ \E i \in CallsOf("add_storage") : vm.calls[i].args[3].t = "name"

\* C4: the append call a ChildDef emits targets the node temporary of its
\* enclosing parent and appends the ChildDef's own node temporary.
C4_AppendToParent ==
    ret.node.kind = "ChildDef" =>
        LET n == Len(code)
            c == Last(vm.calls)
        IN  /\ code[n - 5] = load_fast(Top.node_var)
            /\ code[n - 2] = load_fast(ret.node_var)
            /\ Top.node_var # ret.node_var
            /\ c.f = AppendOf(NodeValue(Top.node))
            /\ c.args = <<NodeValue(ret.node)>>

\* A ChildDef nested in a ChildDef has returned after an earlier sibling.
C4_Witness ==
    /\ ret.node.kind = "ChildDef"
    /\ Len(frames) = 2
    /\ Top.node.kind = "ChildDef"
    /\ Top.i = 3
    /\ Last(vm.calls).f = AppendOf(NodeValue(Top.node))
    /\ Last(vm.calls).args = <<NodeValue(ret.node)>>

\* C5: the run_operator call of an OperatorExpr receives the node temporary
\* of the innermost enclosing ChildDef and the name of the innermost
\* enclosing Binding or StorageExpr.
C5_OperatorNodeAndName ==
    ret.node.kind = "OperatorExpr" =>
        LET n == Len(code)
            c == Last(vm.calls)
            owner == frames[Len(frames) - 1]
        IN  /\ owner.node.kind \in {"Block", "ChildDef"}
            /\ Top.node.kind \in {"Binding", "StorageExpr"}
            /\ code[n - 7] = load_fast(owner.node_var)
            /\ code[n - 6] = load_const(Str(Top.node.name))
            /\ c.f = Helper("run_operator")
            /\ c.args[1] = NodeValue(owner.node)
            /\ c.args[2] = Str(Top.node.name)

\* The second operator expression of a nested ChildDef has returned, bound
\* to another attribute than the first.
C5_Witness ==
    /\ ret.node.kind = "OperatorExpr"
    /\ Len(frames) = 3
    /\ frames[2].node.kind = "ChildDef"
    /\ frames[2].i = 2
    /\ Cardinality(CallsOf("run_operator")) = 2
    /\ \E i, j \in CallsOf("run_operator") :
        /\ vm.calls[i].args[2] # vm.calls[j].args[2]
        /\ vm.calls[i].args[1] = vm.calls[j].args[1]
        /\ vm.calls[j].args[1] = NodeValue(frames[2].node)

\* The mode visit_PythonExpression / visit_PythonModule compile with.
ModeOf(value) == IF value = "PythonExpression" THEN "eval" ELSE "exec"

\* C6: code_stack holds at most one unit, holds one only between the visit
\* of an OperatorExpr's value and the emission of its run_operator call,
\* that call receives the unit compiled from the same OperatorExpr's value,
\* and code_stack is empty at block end.
C6_OneUnitPerOperatorExpr ==
    /\ Len(code_stack) <= 1
    /\ phase = "done" => code_stack = <<>>
    /\ code_stack # <<>> =>
        /\ Top.node.kind = "OperatorExpr"
        /\ Top.pc = "emit"
        /\ code_stack = <<compile(Top.node.lineno, ModeOf(Top.node.value))>>
    /\ ret.node.kind = "OperatorExpr" =>
        /\ code_stack = <<>>
        /\ Last(vm.calls).args[4] =
              compile(ret.node.lineno, ModeOf(ret.node.value))

\* A second operator expression has returned and the two run_operator calls
\* received different units.
C6_Witness ==
    /\ ret.node.kind = "OperatorExpr"
    /\ ret.node.value = "PythonModule"
    /\ code_stack = <<>>
    /\ \E i, j \in CallsOf("run_operator") :
        /\ i < j
        /\ vm.calls[i].args[4].s = "eval"
        /\ vm.calls[j].args[4] = compile(ret.node.lineno, "exec")

\* The runtime helpers whose calls are emitted inside try_squash_raise.
GuardedHelpers ==
    {"validate_declarative", "add_storage", "validate_template",
     "validate_unpack_size", "run_operator"}

\* The runtime helpers whose calls are emitted outside try_squash_raise.
UnguardedHelpers == {"declarative_node", "template_inst_node"}

\* C7 as stated: every emitted call of validate_declarative,
\* declarative_node, add_storage, validate_template, validate_unpack_size,
\* template_inst_node and run_operator lies inside a try_squash_raise region.
C7_AllHelperCallsInRegion ==
    \A i \in 1..Len(vm.calls) :
        vm.calls[i].f.t = "helper"
        /\ vm.calls[i].f.s \in GuardedHelpers \cup UnguardedHelpers
        => vm.calls[i].try

\* C7 as amended: every emitted call of validate_declarative, add_storage,
\* validate_template, validate_unpack_size and run_operator lies inside a
\* try_squash_raise region; the calls of declarative_node and
\* template_inst_node are emitted outside of any region.
C7_ValidationCallsInRegion ==
    \A i \in 1..Len(vm.calls) :
        vm.calls[i].f.t = "helper" =>
            /\ vm.calls[i].f.s \in GuardedHelpers => vm.calls[i].try
            /\ vm.calls[i].f.s \in UnguardedHelpers => ~vm.calls[i].try

\* All seven helpers have been called below the root.
C7_Witness ==
    /\ \A h \in GuardedHelpers \cup UnguardedHelpers :
        \E i \in CallsOf(h) : vm.calls[i].line > 1
    /\ \A i \in CallsOf("validate_unpack_size") : vm.calls[i].try
    /\ \A i \in CallsOf("template_inst_node") : ~vm.calls[i].try

\* C8: the first argument of every template_inst_node call is the result of
\* the template-instantiation call, with or without an unpack spec
\* (validate_unpack_size returning None).
C8_TemplateNodeGetsResult ==
    \A i \in CallsOf("template_inst_node") :
        vm.calls[i].args[1] = V("inst", "MyTemplate", vm.calls[i].line, <<>>)

\* The number of build_class instructions emitted since position j.
SubclassesSince(j) ==
    Cardinality({i \in j..Len(code) : code[i] = Op("build_class")})

\* C9: a ChildDef emits the dynamic-subclass instructions if and only if
\* its direct body has a StorageExpr; the class it stores is then its own
\* subclass, and otherwise the loaded type itself, whatever its descendants
\* declare.
C9_SubclassIffStorage ==
    /\ \A k \in 1..Len(frames) :
        LET f == frames[k]
            storage == {i \in 1..Len(f.node.body) :
                            f.node.body[i].kind = "StorageExpr"}
            typename == f.node.typename
        IN  f.node.kind = "ChildDef" =>
            vm.fast[f.class_var] =
                IF storage # {}
                THEN V("class", typename, f.node.lineno, <<typename>>)
                ELSE V("name", typename, 0, <<>>)
    /\ (frames # <<>> /\ Top.node.kind = "ChildDef" /\ Top.i = 1) =>
        LET storage == {i \in 1..Len(Top.node.body) :
                            Top.node.body[i].kind = "StorageExpr"}
            start == Positions(OpN("set_lineno", Top.node.lineno))
        IN  /\ Cardinality(start) = 1
            /\ \A j \in start :
                SubclassesSince(j) = IF storage # {} THEN 1 ELSE 0

\* A ChildDef with a storage declaration has been entered inside a ChildDef
\* without one.
C9_Witness ==
    /\ Len(frames) = 3
    /\ Top.i = 1
    /\ Top.node.kind = "ChildDef"
    /\ \E i \in 1..Len(Top.node.body) : Top.node.body[i].kind = "StorageExpr"
    /\ frames[2].node.kind = "ChildDef"
    /\ \A i \in 1..Len(frames[2].node.body) :
        frames[2].node.body[i].kind # "StorageExpr"
    /\ vm.fast[frames[2].class_var] = V("name", "Label", 0, <<>>)
    /\ vm.fast[Top.class_var].t = "class"

\* The called functions of a sequence of calls, by name.
RECURSIVE CallNames(_)
CallNames(calls) ==
    IF calls = <<>> THEN <<>>
    ELSE <<IF Head(calls).f.t = "helper" THEN Head(calls).f.s
           ELSE Head(calls).f.t>> \o CallNames(Tail(calls))

\* The child Label, whose body is the binding text = "hi", of the root
\* Window has returned.
WindowLabelText ==
    /\ ret.node.kind = "ChildDef"
    /\ ret.node.typename = "Label"
    /\ ret.node.identifier = ""
    /\ ret.node.body = <<Binding("text", "=", "PythonExpression")>>
    /\ Top.node.kind = "Block"
    /\ Top.node.typename = "Window"
    /\ Top.node.body = <<ChildDef("Label", "")>>

\* What is emitted for Window: Label: text = "hi", but for the class of the
\* child.
WindowLabelTextCalls ==
    /\ CallNames(vm.calls) =
          <<"make_object", "validate_declarative", "declarative_node",
            "validate_declarative", "declarative_node", "run_operator",
            "append">>
    /\ vm.calls[2].args = <<V("name", "Window", 0, <<>>)>>
    /\ vm.calls[3].args[1] = V("name", "Window", 0, <<>>)
    /\ vm.calls[4].args = <<V("name", "Label", 0, <<>>)>>
    /\ vm.calls[6].args =
          <<NodeValue(ret.node), Str("text"), Str("="),
            compile(ret.node.lineno + 1, "eval"),
            V("globals", "", 0, <<>>)>>
    /\ vm.calls[7].f = AppendOf(NodeValue(Top.node))
    /\ vm.calls[7].args = <<NodeValue(ret.node)>>
    /\ vm.stack = <<>>

\* C10 as stated: Window: Label: text = "hi" emits root construction and
\* validation, child-class derivation for Label, child construction, the
\* run_operator call binding text with =, the append of the child to the
\* root's children, and leaves no operand-stack residue.
C10_ScenarioWithDerivation ==
    WindowLabelText =>
        /\ WindowLabelTextCalls
        /\ vm.calls[5].args[1].t = "class"
        /\ Positions(Op("build_class")) # {}

\* C10 as amended: Window: Label: text = "hi" emits root construction and
\* validation, child construction from the loaded type Label itself with
\* no child-class derivation, the run_operator call binding text with =,
\* the append of the child to the root's children, and leaves no
\* operand-stack residue.
C10_ScenarioWithoutDerivation ==
    WindowLabelText =>
        /\ WindowLabelTextCalls
        /\ vm.calls[5].args[1] = V("name", "Label", 0, <<>>)
        /\ Positions(Op("build_class")) = {}

\* The scenario has been compiled.
C10_Witness ==
    /\ WindowLabelText
    /\ Called("run_operator")
    /\ vm.stack = <<>>
    /\ Len(vm.calls) = 7

\* The calls of the runtime helper `name` executed on source line `line`.
CallsOn(name, line) == {i \in CallsOf(name) : vm.calls[i].line = line}

\* C11: visit_TemplateInst emits a validate_unpack_size call if and only if
\* the instantiation has an unpack spec, with the number of fixed names and
\* whether a starred name is given; the template_inst_node call follows and
\* receives the fixed names and the starred name, or () and '' when there
\* is no unpack spec.
C11_UnpackValidation ==
    ret.node.kind = "TemplateInst" =>
        LET node == ret.node
            sizes == CallsOn("validate_unpack_size", node.lineno)
            nodes == CallsOn("template_inst_node", node.lineno)
        IN  /\ Cardinality(sizes) = IF node.unpack THEN 1 ELSE 0
            /\ \A i \in sizes :
                /\ Len(vm.calls[i].args) = 3
                /\ vm.calls[i].args[2] = IntV(Len(node.names))
                /\ vm.calls[i].args[3] = Bool(node.starname # "")
            /\ nodes = {Len(vm.calls) - 1}
            /\ \A j \in nodes :
                /\ \A i \in sizes : i = j - 1
                /\ vm.calls[j].args[2] =
                      Tuple(IF node.unpack THEN node.names ELSE <<>>)
                /\ vm.calls[j].args[3] =
                      Str(IF node.unpack THEN node.starname ELSE "")

\* A template instantiation with a starred unpack name has returned after
\* one with fixed names only and one without an unpack spec.
C11_Witness ==
    /\ ret.node.kind = "TemplateInst"
    /\ ret.node.unpack
    /\ ret.node.starname = "rest"
    /\ Cardinality(CallsOf("template_inst_node")) = 3
    /\ Cardinality(CallsOf("validate_unpack_size")) = 2
    /\ \E i \in CallsOf("validate_unpack_size") :
        vm.calls[i].args[2] = IntV(2) /\ vm.calls[i].args[3] = Bool(FALSE)
    /\ \E i \in CallsOf("template_inst_node") :
        vm.calls[i].args[2] = Tuple(<<>>) /\ vm.calls[i].args[3] = Str("")
    /\ vm.calls[Len(vm.calls) - 2].args[3] = Bool(TRUE)

\* The values load_name leaves for a sequence of names.
Loaded(names) == [i \in 1..Len(names) |-> V("name", names[i], 0, <<>>)]

\* C12: visit_TemplateInst evaluates the positional arguments in source
\* order and then the variadic argument; each isolated unit is called with
\* the values of the names it captured, in the order of its parameters; the
\* instantiation call is variadic exactly when a variadic argument is
\* present and its argument count is the number of positional arguments.
C12_ArgumentOrder ==
    ret.node.kind = "TemplateInst" =>
        LET node == ret.node
            all == node.args \o node.stararg
            k == Len(all)
            first == Len(vm.calls) - (k + 3 + IF node.unpack THEN 1 ELSE 0)
            inst == vm.calls[first + k + 1]
            start == Positions(OpN("set_lineno", node.lineno))
            vars_ == {i \in 1..Len(code) :
                        /\ code[i].op = "call_function_var"
                        /\ \A j \in start : j < i}
        IN  /\ vm.calls[first].f = Helper("validate_template")
            /\ \A a \in 1..k :
                LET c == vm.calls[first + a]
                IN  /\ c.f = V("func", all[a].ast, node.lineno, all[a].reads)
                    /\ c.args = Loaded(all[a].reads)
                    /\ ~c.star
            /\ inst.f = V("name", node.name, 0, <<>>)
            /\ inst.star = (node.stararg # <<>>)
            /\ inst.args =
                  [a \in 1..k |-> V("value", all[a].ast, node.lineno, <<>>)]
            /\ Cardinality(start) = 1
            /\ Cardinality(vars_) = IF node.stararg # <<>> THEN 1 ELSE 0
            /\ \A i \in vars_ : code[i].n = Len(node.args)

\* A variadic instantiation whose positional argument captures two names
\* has returned after an instantiation with two positional arguments.
C12_Witness ==
    /\ ret.node.kind = "TemplateInst"
    /\ ret.node.stararg = <<ArgStar>>
    /\ ret.node.args = <<Arg2>>
    /\ \E i \in 1..Len(vm.calls) :
        /\ vm.calls[i].f.t = "name"
        /\ vm.calls[i].star
        /\ vm.calls[i].args = <<V("value", "x + y", ret.node.lineno, <<>>),
                                V("value", "rest", ret.node.lineno, <<>>)>>
    /\ \E i \in 1..Len(vm.calls) :
        /\ vm.calls[i].f.t = "func"
        /\ vm.calls[i].args = Loaded(<<"x", "y">>)
    /\ \E i \in 1..Len(vm.calls) :
        /\ vm.calls[i].f.t = "name"
        /\ ~vm.calls[i].star
        /\ Len(vm.calls[i].args) = 2
        /\ vm.calls[i].args[1].s = "1"

\* The add_storage call of the declaration `node`, whose enclosing visitor
\* is `owner`, is call i, emitted `after` instructions before the end of the
\* code: it is made on the line of the declaration with the class stored in
\* the class temporary of the owner, which is the subclass made for the owner.
StorageCall(i, node, owner, after) ==
    /\ i \in CallsOn("add_storage", node.lineno)
    /\ vm.calls[i].args[1] = vm.fast[owner.class_var]
    /\ vm.calls[i].args[1] =
          V("class", owner.node.typename, owner.node.lineno,
            <<owner.node.typename>>)
    /\ vm.calls[i].args[2] = Str(node.name)
    /\ owner.class_var = Last(class_stack)
    /\ code[Len(code) - after - 6] = load_fast(owner.class_var)
    /\ code[Len(code) - after - 9] = OpN("set_lineno", node.lineno)

\* C13: the add_storage call of a StorageExpr receives the class temporary
\* on top of class_stack, the one of the innermost enclosing ChildDef, and
\* precedes the run_operator call of the declaration's own expression.
C13_StorageClassAndOrder ==
    /\ (frames # <<>> /\ Top.node.kind = "StorageExpr" /\ Top.pc = "expr") =>
        /\ StorageCall(Len(vm.calls), Top.node, frames[Len(frames) - 1], 0)
        /\ CallsOn("run_operator", Top.node.lineno) = {}
    /\ (ret.node.kind = "StorageExpr" /\ ret.node.value = "") =>
        /\ StorageCall(Len(vm.calls), ret.node, Top, 0)
        /\ CallsOn("run_operator", ret.node.lineno) = {}
    /\ (ret.node.kind = "StorageExpr" /\ ret.node.value # "") =>
        /\ StorageCall(Len(vm.calls) - 1, ret.node, Top, 11)
        /\ CallsOn("add_storage", ret.node.lineno) = {Len(vm.calls) - 1}
        /\ CallsOn("run_operator", ret.node.lineno) = {Len(vm.calls)}
    /\ \A i \in CallsOf("add_storage") : \A j \in CallsOf("run_operator") :
        vm.calls[i].line = vm.calls[j].line => i < j

\* A storage declaration with an expression has returned to a ChildDef
\* nested in the root, whose class differs from the root's.
C13_Witness ==
    /\ ret.node.kind = "StorageExpr"
    /\ ret.node.value # ""
    /\ Len(frames) = 2
    /\ Top.node.kind = "ChildDef"
    /\ vm.fast[frames[1].class_var] # vm.fast[Top.class_var]
    /\ vm.calls[Len(vm.calls) - 1].f = Helper("add_storage")
    /\ vm.calls[Len(vm.calls)].f = Helper("run_operator")

\* C14: a release of a name that is not held leaves the set of held names
\* as it was, and a second release of a name changes nothing after the
\* first.
C14_ReleaseUnheld ==
    [][(alloc'.count # alloc.count /\ alloc'.op = "release") =>
        /\ alloc'.name \notin pool => pool' = pool
        /\ pool' = pool \ {alloc'.name}
        /\ VarPool_release(pool', alloc'.name) = pool']_vars

\* A name that was never issued has been released while another was held.
C14_Witness ==
    /\ alloc.count = 2
    /\ alloc.op = "release"
    /\ alloc.name = VarName(1)
    /\ pool = {VarName(0)}

\* C15: once every issued name has been released, the drained VarPool and a
\* VarPool created at that moment hold the same names and return the same
\* name from new, call by call.
C15_DrainedLikeFresh ==
    alloc.twin =>
        /\ pool = alloc.fresh
        /\ alloc.op = "new" => alloc.name = alloc.fname

\* A VarPool was drained, and it and the VarPool created at that moment
\* have each returned a name from the fifth call.
C15_Witness ==
    /\ alloc.twin
    /\ alloc.count = 5
    /\ alloc.op = "new"
    /\ alloc.name = VarName(0)
    /\ alloc.fname = VarName(0)
    /\ alloc.issued = {VarName(0)}

\* The names the compiler reserves for the scope key and the node map.
Reserved == {scope_key, node_map}

\* The positions of the instructions that store to a reserved name.
ReservedStores ==
    {i \in 1..Len(code) : code[i].op = "store_fast" /\ code[i].s \in Reserved}

\* C16: the only stores to the scope key and to the node map are the two of
\* prepare_block; the visitors emit none, and no name VarPool.new returns is
\* one of the two, so both names keep the values of the preamble.
C16_ReservedNamesReadOnly ==
    /\ \A i \in ReservedStores : i <= Len(prepare_block)
    /\ phase # "start" =>
        /\ Cardinality(ReservedStores) = 2
        /\ vm.fast[scope_key] = HelperResult("make_object", <<>>, vm.line)
        /\ vm.fast[node_map] = V("dict", "", 0, <<>>)
    /\ pool \cap Reserved = {}
    /\ {VarName(i) : i \in 0..(2 * MaxNodes + 2)} \cap Reserved = {}
    /\ \A k \in 1..Len(class_stack) : class_stack[k] \notin Reserved
    /\ \A k \in 1..Len(node_stack) : node_stack[k] \notin Reserved
    /\ \A k \in 1..Len(frames) :
        frames[k].node.kind \in {"Block", "ChildDef"} =>
            /\ frames[k].class_var \notin Reserved
            /\ frames[k].node_var \notin Reserved

\* A block with a named ChildDef has been compiled: the node map was read
\* after the preamble, and temporaries were stored.
C16_Witness ==
    /\ phase = "done"
    /\ \E i \in Positions(load_fast(node_map)) : i > Len(prepare_block)
    /\ \E i \in 1..Len(code) :
        /\ i > Len(prepare_block)
        /\ code[i].op = "store_fast"
        /\ code[i].s = VarName(3)
    /\ ReservedStores = {5, 7}

\* The temporaries held by the ChildDefs being visited.
HeldTemporaries == class_stack \o node_stack

\* C17: the class and node temporaries of the ChildDefs being visited are
\* pairwise distinct and are the names the pool holds, so the temporaries
\* of every enclosing ChildDef still hold its own class and its own node
\* whatever the nested ChildDefs have stored.
C17_TemporariesDistinct ==
    /\ \A i \in 1..Len(HeldTemporaries) : \A j \in 1..Len(HeldTemporaries) :
        i # j => HeldTemporaries[i] # HeldTemporaries[j]
    /\ phase = "visit" =>
        pool = {HeldTemporaries[i] : i \in 1..Len(HeldTemporaries)}
    /\ \A k \in 1..Len(class_stack) :
        LET f == frames[k]
        IN  /\ f.node.kind \in {"Block", "ChildDef"}
            /\ f.class_var = class_stack[k]
            /\ f.node_var = node_stack[k]
            /\ vm.fast[f.node_var] = NodeValue(f.node)
            /\ vm.fast[f.class_var].s = f.node.typename
            /\ vm.fast[f.class_var].t = "class" =>
                    vm.fast[f.class_var].n = f.node.lineno
    /\ ret.node.kind = "ChildDef" =>
        LET append == vm.calls[Len(vm.calls)]
        IN  /\ append.f = AppendOf(NodeValue(Top.node))
            /\ append.args = <<NodeValue(ret.node)>>

\* A second nested ChildDef has reused the temporaries of its returned
\* sibling while two enclosing ChildDefs hold theirs.
C17_Witness ==
    /\ Len(class_stack) = 3
    /\ Len(frames) = 3
    /\ Top.i = 1
    /\ class_stack[3] = VarName(4)
    /\ Cardinality(Positions(store_fast(VarName(4)))) = 2
    /\ Cardinality(Positions(store_fast(VarName(5)))) = 2

\* The calls of children.append executed so far, and those that append the
\* node built on source line `line`.
Appends == {i \in 1..Len(vm.calls) : vm.calls[i].f.t = "append"}

AppendsOf(line) == {i \in Appends : vm.calls[i].args[1].n = line}

\* The calls that build a node.
Builds == CallsOf("declarative_node") \cup CallsOf("template_inst_node")

\* The positions of the set_lineno instructions.
Linenos == {i \in 1..Len(code) : code[i].op = "set_lineno"}

\* C18: a ChildDef builds and stores its node before anything of its body
\* is emitted, the body items are emitted in source order, and the append
\* to the parent comes after all of them; every descendant is therefore
\* appended to its own parent before the ChildDef is appended to its
\* parent, and siblings are appended in source order.
C18_EmissionOrder ==
    /\ \A i \in Linenos : \A j \in Linenos : i < j => code[i].n <= code[j].n
    /\ \A i \in Builds : \A j \in Builds :
        i < j => vm.calls[i].line < vm.calls[j].line
    /\ \A k \in 2..Len(frames) :
        LET f == frames[k]
        IN  f.node.kind = "ChildDef" =>
            /\ AppendsOf(f.node.lineno) = {}
            /\ CallsOn("declarative_node", f.node.lineno) # {}
            /\ vm.fast[f.node_var] = NodeValue(f.node)
            /\ (k = Len(frames) /\ f.i = 1) =>
                /\ code[Len(code)] = store_fast(f.node_var)
                   \/ code[Len(code) - 5] = store_fast(f.node_var)
                /\ \A i \in Linenos : code[i].n <= f.node.lineno
    /\ ret.node.kind = "ChildDef" =>
        /\ AppendsOf(ret.node.lineno) = {Len(vm.calls)}
        /\ \A i \in Builds :
            vm.calls[i].line > ret.node.lineno =>
                \E j \in AppendsOf(vm.calls[i].line) :
                    i < j /\ j < Len(vm.calls)
    /\ \A i \in Appends : \A j \in Appends :
        /\ (vm.calls[i].f = vm.calls[j].f /\ i < j) =>
                vm.calls[i].args[1].n < vm.calls[j].args[1].n
        /\ vm.calls[i].f.n = vm.calls[j].args[1].n => i < j
    /\ \A i \in Appends :
        Cardinality(AppendsOf(vm.calls[i].args[1].n)) = 1

\* A ChildDef with a nested ChildDef and a later sibling item has been
\* compiled: three nodes were appended, the nested one first.
C18_Witness ==
    /\ phase = "done"
    /\ Cardinality(Appends) = 3
    /\ \E i \in AppendsOf(3) : \E j \in AppendsOf(2) : \E k \in AppendsOf(4) :
        /\ i < j
        /\ j < k
        /\ vm.calls[i].f.n = 2
        /\ vm.calls[j].f.n = 1
        /\ vm.calls[k].f.n = 1

\* The names held for the visitors that are running.
HeldBy(fs) ==
    ({fs[k].class_var : k \in 1..Len(fs)}
        \cup {fs[k].node_var : k \in 1..Len(fs)}) \ {""}

\* C19: when visit_ChildDef returns, the pool holds exactly the names it
\* held when the visit was entered: the two temporaries of the visit are
\* free again, as are those of the nested ChildDefs, and the temporaries of
\* the enclosing ChildDefs are still held.
C19_PoolRestored ==
    ret.node.kind = "ChildDef" =>
        /\ pool = ret.entry.pool
        /\ ret.class_var \notin pool
        /\ ret.node_var \notin pool
        /\ ret.class_var # ret.node_var
        /\ pool = HeldBy(frames)
        /\ Cardinality(pool) = 2 * Len(frames)

\* A ChildDef with a nested ChildDef has returned to a ChildDef nested in
\* the root: four names are held and four have been released.
C19_Witness ==
    /\ ret.node.kind = "ChildDef"
    /\ Len(frames) = 2
    /\ ret.node.body # <<>>
    /\ ret.node.body[1].kind = "ChildDef"
    /\ ret.class_var = VarName(4)
    /\ ret.node_var = VarName(5)
    /\ Positions(store_fast(VarName(7))) # {}
    /\ pool = {VarName(0), VarName(1), VarName(2), VarName(3)}

\* The four stacks of the compiler, now and at the entry of the visitor
\* that has returned.
Stacks == <<class_stack, node_stack, bind_stack, code_stack>>

StacksAtEntry ==
    <<ret.entry.class_stack, ret.entry.node_stack, ret.entry.bind_stack,
      ret.entry.code_stack>>

\* C20: visit_ChildDef, visit_TemplateInst, visit_StorageExpr, visit_Binding
\* and visit_OperatorExpr return with the four stacks as they found them;
\* visit_PythonExpression and visit_PythonModule change nothing but
\* code_stack, onto which they push one entry; class_stack and node_stack
\* always have the same depth.
C20_StacksBalanced ==
    /\ ret.node.kind \in {"ChildDef", "TemplateInst", "StorageExpr",
                          "Binding", "OperatorExpr"} =>
        Stacks = StacksAtEntry
    /\ ret.node.kind \in {"PythonExpression", "PythonModule"} =>
        /\ class_stack = ret.entry.class_stack
        /\ node_stack = ret.entry.node_stack
        /\ bind_stack = ret.entry.bind_stack
        /\ pool = ret.entry.pool
        /\ Len(code) = ret.entry.code
        /\ Front(code_stack) = ret.entry.code_stack
        /\ Len(code_stack) = Len(ret.entry.code_stack) + 1
        /\ Last(code_stack) = compile(ret.node.lineno, ModeOf(ret.node.value))
    /\ Len(class_stack) = Len(node_stack)

\* visit_PythonModule has returned inside a binding of a ChildDef nested in
\* the root, after a template instantiation.
C20_Witness ==
    /\ ret.node.kind = "PythonModule"
    /\ Len(class_stack) = 2
    /\ bind_stack = <<"clicked">>
    /\ Len(code_stack) = 1
    /\ Called("template_inst_node")
    /\ Appends # {}

====
